---- MODULE Spec2Model ----
(***************************************************************************)
(* A model of SmartBaseModel: the self-correcting structured-generation    *)
(* protocol (SmartBaseModel.model_ask / model_ask_json), the streaming     *)
(* model clients (OpenAIModel / OllamaModel .async_chat), the command      *)
(* execution engine (CommandExecutor, PythonCodeInterpreter), the schema   *)
(* closure (recursively_search_base_model_dependencies) and the broadcast  *)
(* channel (BehaviorSubject).                                              *)
(*                                                                         *)
(* Text is a sequence of tokens, so the empty string is <<>>.  An optional *)
(* value is None (<<>>) or Some(v) (<<v>>).                                *)
(***************************************************************************)
EXTENDS Integers, Sequences, FiniteSets, TLC

None == <<>>
Some(v) == <<v>>
Last(s) == s[Len(s)]

(***************************************************************************)
(* Bounds of the model.                                                    *)
(***************************************************************************)
\* chunks one stream of the stub model client may yield
MaxChunks == 3
\* model_ask calls made one after the other
MaxCalls == 2

(***************************************************************************)
(* ===================  Structured-generation protocol  =================  *)
(***************************************************************************)

\* SmartBaseModel._MAX_ATTEMPT
MAX_ATTEMPT == 5

\* The tokens a model response is made of.
Tokens == {"{", "}"}

\* The prompts a caller passes.
Prompts == {<<"prompt">>}

\* uuid4() evaluated once, when the def statement of model_ask runs.
DEFAULT_RESPONSE_ID == "uuid_default"
\* uuid4() evaluated once, when the def statement of model_ask_json runs.
DEFAULT_JSON_RESPONSE_ID == "uuid_default_json"
\* Identifiers a caller may supply explicitly.
SuppliedIds == {"uuid_caller"}

\* The rendered schema closure of the target class.
SchemaText == <<"class T(SmartBaseModel)">>

\* ScratchPad.as_text: prompt, schema, response and error under four headers.
AsText(pad) ==
    <<"Original Prompt: ">> \o pad.prompt \o <<"Schema: ">> \o pad.schema_reference
        \o <<"Response: ">> \o pad.current_response \o <<"Error: ">> \o pad.error

\* ERROR_CORRECTION_PROMPT.format(error=error)
ERROR_CORRECTION_PROMPT(error) ==
    <<"Encountered an error: ">> \o error \o <<". Correct it according to the prompt">>

\* cls.model_validate_json accepts a text: a closed object of the target class,
\* "{}", or one nested in another, "{{}}", ...
IsValidJson(text) ==
    /\ Len(text) >= 2
    /\ Len(text) % 2 = 0
    /\ \A i \in 1..Len(text) : text[i] = (IF 2 * i <= Len(text) THEN "{" ELSE "}")

\* The value cls.model_validate_json builds from an accepted text.
ParsedModel(text) == [cls |-> "T", depth |-> Len(text) \div 2]

\* The ValidationError pydantic raises on a rejected text.
ValidationError(text) ==
    IF text = <<>> THEN <<"ValidationError: EOF while parsing">>
    ELSE <<"ValidationError: invalid json, got ", Last(text)>>

VARIABLES
    schema_renders,   \* whether inspect.getsource works on the target class and its closure
    ask_pc,           \* model_ask: "idle", "wrapper", "streaming", "done", "raised"
    n_calls,          \* model_ask calls started
    response_id,      \* the response_id of the running call
    scratch_pad,      \* the ScratchPad of the running call
    current_attempt,  \* the nonlocal attempt counter
    llm_calls,        \* llm.async_chat streams opened in the running call
    last_prompt,      \* the user message of the last stream opened
    chunk,            \* the loop variable of model_ask_json: None (unbound) or Some(chunk)
    json_response,    \* what model_ask_json returned to the wrapper: None or Some(text)
    yielded,          \* the chunks the model client yielded in the running attempt
    stream_state,     \* the client's stream: "none", "open", "ended", "raised"
    callback_raised,  \* a subscriber of message_subject raised in the running call
    broadcast,        \* the values passed to message_subject.next in the running attempt
    subject_value,    \* message_subject._value
    result,           \* what model_ask returned: None or Some(model)
    ask_entry,        \* what the caller called: "model_ask" or "model_ask_json"
    id_supplied,      \* the caller of the running call passed a response_id
    call_ids,         \* the ids of the values the running call has passed to
                      \* message_subject.next
    default_ids       \* the ids under which earlier calls made with no response_id
                      \* have broadcast

askVars == <<schema_renders, ask_pc, n_calls, response_id, scratch_pad, current_attempt,
             llm_calls, last_prompt, chunk, json_response, yielded, stream_state,
             callback_raised, broadcast, subject_value, result, ask_entry, id_supplied,
             call_ids, default_ids>>

VARIABLES
    chat_provider,    \* "openai" or "ollama"
    chat_mode,        \* self.mode: "json" or "text"
    chat_pc,          \* the generator: "running", "finished" or "raised"
    upstream_count,   \* upstream chunks consumed
    upstream_state,   \* the vendor stream: "open", "ended" or "raised"
    current_message,  \* the accumulated text
    message_chunk,    \* the local message_chunk: None (unbound) or Some(index in chat_heap)
    chat_heap,        \* the chunk dicts the generator has built
    delivered         \* the yields: the dict yielded and its value when it was yielded

chatVars == <<chat_provider, chat_mode, chat_pc, upstream_count, upstream_state, current_message,
              message_chunk, chat_heap, delivered>>

VARIABLES
    process,          \* CommandExecutor.process: None or Some(pid)
    should_kill,      \* CommandExecutor.should_kill
    is_executing,     \* CommandExecutor.is_executing
    stdout_queue,     \* CommandExecutor.stdout_queue: the lines, each with the pid it came from
    stderr_queue,     \* CommandExecutor.stderr_queue, likewise
    log_value,        \* log_behavior_subject._value
    exception_signal, \* exception_signal._value
    procs,            \* the subprocesses spawned, by pid: state, pipes, lines written
    runs,             \* the execute / execute_python_source calls made, in call order;
                      \* active_at_call: a subprocess of the executor ran when it was made
    files             \* the temporary source files on disk

execVars == <<process, should_kill, is_executing, stdout_queue, stderr_queue, log_value,
              exception_signal, procs, runs, files>>

VARIABLES
    parse_stdout,     \* the stdout text given to __parse_session_stdout
    parse_pc,         \* "called", "returned" or "raised"
    parse_session     \* the mapping it returned

parseVars == <<parse_stdout, parse_pc, parse_session>>

VARIABLES
    closure_schema,   \* the model classes: for each, the annotations of its fields
    closure_root,     \* source_cls
    closure_pc,       \* "called", "returned" or "raised"
    closure_deps      \* the set returned

closureVars == <<closure_schema, closure_root, closure_pc, closure_deps>>

VARIABLES
    bs_value,         \* BehaviorSubject._value: None or Some(value)
    subscribers,      \* Observable._subscribers: the callbacks, each with the number
                      \* of next calls that had started when it was subscribed
    emissions,        \* the next calls made, in call order: the value, the place of
                      \* emit's loop in the list, and the subscribers at the call
    invocations,      \* the calls of callbacks made: the subscriber, the value, the
                      \* emission that made the call and the turn of its loop
    n_subscribes      \* the subscribe calls made

subjectVars == <<bs_value, subscribers, emissions, invocations, n_subscribes>>

VARIABLES
    rewrite_lines,    \* the lines given to inject_decorator_for_source_code
    rewrite_at,       \* the lines its loop has taken
    modified_lines,   \* its list modified_lines
    rewrite_pc,       \* "called" or "returned"
    rewrite_result    \* the text it returned

rewriteVars == <<rewrite_lines, rewrite_at, modified_lines, rewrite_pc, rewrite_result>>

VARIABLES
    gpt_pc,           \* PyGPT.async_chat: "idle", "planning", "executing", "returned",
                      \* "raised"
    gpt_chats,        \* async_chat calls started
    gpt_plan,         \* optional_py_source: None or Some(source)
    gpt_response,     \* the InterpreterResponse: None or Some(response)
    gpt_trace,        \* the calls the running async_chat has made, in order
    gpt_error,        \* the exception the running async_chat raised: None or Some(error)
    gpt_system_prompt \* the system prompt of the narration model

gptVars == <<gpt_pc, gpt_chats, gpt_plan, gpt_response, gpt_trace, gpt_error,
             gpt_system_prompt>>

\* What the actions of one subsystem leave alone.
notAsk == <<chatVars, execVars, parseVars, closureVars, subjectVars,
    rewriteVars, gptVars>>
notChat == <<askVars, execVars, parseVars, closureVars, subjectVars,
    rewriteVars, gptVars>>
notExec == <<askVars, chatVars, parseVars, closureVars, subjectVars,
    rewriteVars, gptVars>>
notParse == <<askVars, chatVars, execVars, closureVars, subjectVars,
    rewriteVars, gptVars>>
notClosure == <<askVars, chatVars, execVars, parseVars, subjectVars,
    rewriteVars, gptVars>>
notSubject == <<askVars, chatVars, execVars, parseVars, closureVars,
    rewriteVars, gptVars>>
notRewrite == <<askVars, chatVars, execVars, parseVars, closureVars, subjectVars, gptVars>>
notGpt == <<askVars, chatVars, execVars, parseVars, closureVars, subjectVars,
            rewriteVars>>

vars == <<askVars, chatVars, execVars, parseVars, closureVars, subjectVars, rewriteVars,
         gptVars>>

EmptyPad == [prompt |-> <<>>, schema_reference |-> <<>>, current_response |-> <<>>,
             error |-> <<>>]

AskInit ==
    /\ schema_renders \in BOOLEAN
    /\ ask_pc = "idle"
    /\ n_calls = 0
    /\ response_id = DEFAULT_RESPONSE_ID
    /\ scratch_pad = EmptyPad
    /\ current_attempt = 0
    /\ llm_calls = 0
    /\ last_prompt = <<>>
    /\ chunk = None
    /\ json_response = None
    /\ yielded = <<>>
    /\ stream_state = "none"
    /\ callback_raised = FALSE
    /\ broadcast = <<>>
    /\ subject_value = None
    /\ result = None
    /\ ask_entry = "model_ask"
    /\ id_supplied = FALSE
    /\ call_ids = {}
    /\ default_ids = {}

\* A new call begins: the call before it is over, and its id is remembered when it
\* was the default of the def statement and the call has broadcast under it.
NewCall(supplied) ==
    /\ id_supplied' = (supplied # None)
    /\ call_ids' = {}
    /\ default_ids' = IF ~id_supplied THEN default_ids \cup call_ids ELSE default_ids

\* {"id": str(response_id), "chunk_message": chunk} (lines 150-153)
Message_id_of_attempt(id, c) ==
    [id |-> IF current_attempt = 0 THEN id ELSE "uuid_retry", chunk_message |-> c]
Message(id, c) == [id |-> id, chunk_message |-> c]

\* The retry budget is spent (line 204).
Exhausted_off_by_one(attempt) == attempt >= MAX_ATTEMPT
Exhausted(attempt) == attempt > MAX_ATTEMPT

\* The except branch of model_ask_wrapper writes the Scratch Pad (lines 197-199).
RecordFailure_forgets_error(pad, response, error) ==
    IF response # None THEN [pad EXCEPT !.current_response = response[1]] ELSE pad
RecordFailure_rewrites_prompt(pad, response, error) ==
    [pad EXCEPT !.error = ERROR_CORRECTION_PROMPT(error),
                !.current_response = IF response # None THEN response[1] ELSE @,
                !.prompt = @ \o ERROR_CORRECTION_PROMPT(error)]
RecordFailure(pad, response, error) ==
    LET withError == [pad EXCEPT !.error = ERROR_CORRECTION_PROMPT(error)]
    IN  IF response # None THEN [withError EXCEPT !.current_response = response[1]]
        ELSE withError

\* model_ask_json returned None to the wrapper, which returns None (lines 189-190).
WrapperReturnsNone_propagates ==
    /\ ask_pc' = "raised"
    /\ json_response' = None
    /\ result' = None
    /\ UNCHANGED <<scratch_pad, current_attempt>>
WrapperReturnsNone ==
    /\ ask_pc' = "done"
    /\ json_response' = None
    /\ result' = None
    /\ UNCHANGED <<scratch_pad, current_attempt>>

\* model_ask up to the first call of model_ask_wrapper (lines 174-181, 211).
ModelAsk_swallows(prompt, supplied) ==
    /\ ask_pc \in {"idle", "done", "raised"}
    /\ n_calls < MaxCalls
    /\ n_calls' = n_calls + 1
    /\ response_id' = IF supplied = None THEN DEFAULT_RESPONSE_ID ELSE supplied[1]
    /\ llm_calls' = 0
    /\ current_attempt' = 0
    /\ result' = None
    /\ json_response' = None
    /\ callback_raised' = FALSE
    /\ scratch_pad' = [prompt |-> prompt, schema_reference |-> SchemaText,
                       current_response |-> <<>>, error |-> <<>>]
    /\ ask_pc' = IF schema_renders THEN "wrapper" ELSE "done"
    /\ last_prompt' = <<>>
    /\ chunk' = None
    /\ yielded' = <<>>
    /\ stream_state' = "none"
    /\ broadcast' = <<>>
    /\ ask_entry' = "model_ask"
    /\ NewCall(supplied)
    /\ UNCHANGED <<schema_renders, subject_value>>
    /\ UNCHANGED notAsk

ModelAsk(prompt, supplied) ==
    /\ ask_pc \in {"idle", "done", "raised"}
    /\ n_calls < MaxCalls
    /\ n_calls' = n_calls + 1
    /\ response_id' = IF supplied = None THEN DEFAULT_RESPONSE_ID ELSE supplied[1]
    /\ llm_calls' = 0
    /\ current_attempt' = 0
    /\ result' = None
    /\ json_response' = None
    /\ callback_raised' = FALSE
    /\ IF schema_renders
       THEN /\ scratch_pad' = [prompt |-> prompt, schema_reference |-> SchemaText,
                               current_response |-> <<>>, error |-> <<>>]
            /\ ask_pc' = "wrapper"
       ELSE \* _get_model_with_source_code raises outside any try
            /\ scratch_pad' = EmptyPad
            /\ ask_pc' = "raised"
    /\ last_prompt' = <<>>
    /\ chunk' = None
    /\ yielded' = <<>>
    /\ stream_state' = "none"
    /\ broadcast' = <<>>
    /\ ask_entry' = "model_ask"
    /\ NewCall(supplied)
    /\ UNCHANGED <<schema_renders, subject_value>>
    /\ UNCHANGED notAsk

\* The prompt model_ask_wrapper passes to model_ask_json (lines 186-188).
WrapperPrompt_prompt_only(pad) == pad.prompt
WrapperPrompt(pad) == AsText(pad)

\* The client has yielded its terminal-flagged chunk.
TerminalYielded == IF yielded = <<>> THEN FALSE ELSE Last(yielded).is_final_word

\* model_ask_wrapper calls model_ask_json, which renders the schema and opens the
\* stream (lines 186-188, 140-149).
ModelAskJsonBegin ==
    /\ ask_pc = "wrapper"
    /\ chunk' = None
    /\ yielded' = <<>>
    /\ broadcast' = <<>>
    /\ IF schema_renders
       THEN /\ llm_calls' = llm_calls + 1
            /\ last_prompt' = WrapperPrompt(scratch_pad)
            /\ stream_state' = "open"
            /\ ask_pc' = "streaming"
            /\ UNCHANGED <<json_response, result, scratch_pad, current_attempt>>
       ELSE \* caught by the except of model_ask_json
            /\ WrapperReturnsNone
            /\ stream_state' = "none"
            /\ UNCHANGED <<llm_calls, last_prompt>>
    /\ UNCHANGED <<schema_renders, n_calls, response_id, callback_raised, subject_value,
                   ask_entry, id_supplied, call_ids, default_ids>>
    /\ UNCHANGED notAsk

\* A caller calls model_ask_json itself: the schema is rendered and the stream
\* opened on the caller's prompt, or the rendering raises and None is returned
\* (lines 139-149, 156-158).
ModelAskJson(prompt, supplied) ==
    /\ ask_pc \in {"idle", "done", "raised"}
    /\ n_calls < MaxCalls
    /\ n_calls' = n_calls + 1
    /\ ask_entry' = "model_ask_json"
    /\ NewCall(supplied)
    /\ response_id' = IF supplied = None THEN DEFAULT_JSON_RESPONSE_ID ELSE supplied[1]
    /\ scratch_pad' = EmptyPad
    /\ current_attempt' = 0
    /\ result' = None
    /\ json_response' = None
    /\ callback_raised' = FALSE
    /\ chunk' = None
    /\ yielded' = <<>>
    /\ broadcast' = <<>>
    /\ IF schema_renders
       THEN /\ llm_calls' = 1
            /\ last_prompt' = prompt
            /\ stream_state' = "open"
            /\ ask_pc' = "streaming"
       ELSE /\ llm_calls' = 0
            /\ last_prompt' = <<>>
            /\ stream_state' = "none"
            /\ ask_pc' = "done"
    /\ UNCHANGED <<schema_renders, subject_value>>
    /\ UNCHANGED notAsk

\* One turn of the for loop of model_ask_json: the client yields a chunk, which is
\* broadcast (lines 149-152).  A subscriber that raises ends model_ask_json in its
\* except branch.
StreamChunk(delta, final, raises) ==
    /\ ask_pc = "streaming"
    /\ stream_state = "open"
    /\ Len(yielded) < MaxChunks
    /\ ~TerminalYielded
    /\ Len(yielded) + 1 = MaxChunks => final
    /\ LET content == (IF yielded = <<>> THEN <<>> ELSE Last(yielded).content) \o delta
           c == [content |-> content, is_final_word |-> final]
           message == Message(response_id, c)
       IN  /\ yielded' = Append(yielded, c)
           /\ chunk' = Some(c)
           /\ subject_value' = Some(message)
           /\ broadcast' = Append(broadcast, message)
           /\ call_ids' = call_ids \cup {message.id}
           /\ IF raises
              THEN /\ callback_raised' = TRUE
                   /\ WrapperReturnsNone
              ELSE /\ UNCHANGED <<callback_raised, ask_pc, json_response, result,
                                  scratch_pad, current_attempt>>
    /\ UNCHANGED <<schema_renders, n_calls, response_id, llm_calls, last_prompt,
                   stream_state, ask_entry, id_supplied, default_ids>>
    /\ UNCHANGED notAsk

\* The client raises before or between chunks: model_ask_json returns None.
StreamRaise_retries ==
    /\ ask_pc = "streaming"
    /\ stream_state = "open"
    /\ ~TerminalYielded
    /\ stream_state' = "raised"
    /\ json_response' = None
    /\ result' = None
    /\ scratch_pad' = RecordFailure(scratch_pad, None, <<"client error">>)
    /\ current_attempt' = current_attempt + 1
    /\ ask_pc' = IF Exhausted(current_attempt + 1) \/ ask_entry # "model_ask"
                 THEN "done" ELSE "wrapper"
    /\ UNCHANGED <<schema_renders, n_calls, response_id, llm_calls, last_prompt, chunk,
                   yielded, callback_raised, broadcast, subject_value, ask_entry,
                   id_supplied, call_ids, default_ids>>
    /\ UNCHANGED notAsk

StreamRaise ==
    /\ ask_pc = "streaming"
    /\ stream_state = "open"
    /\ ~TerminalYielded
    /\ stream_state' = "raised"
    /\ WrapperReturnsNone
    /\ UNCHANGED <<schema_renders, n_calls, response_id, llm_calls, last_prompt, chunk,
                   yielded, callback_raised, broadcast, subject_value, ask_entry,
                   id_supplied, call_ids, default_ids>>
    /\ UNCHANGED notAsk

\* return chunk["content"] (line 155)
ReturnedText_empty(c) == <<>>
ReturnedText(c) == c.content

\* The stream ends: the rest of model_ask_json (lines 153-158) and, in model_ask,
\* of model_ask_wrapper (lines 189-209).
StreamEnd(raises) ==
    /\ ask_pc = "streaming"
    /\ stream_state = "open"
    /\ yielded = <<>> \/ TerminalYielded
    /\ stream_state' = "ended"
    /\ IF chunk = None
       THEN \* line 153 reads the unbound loop variable: UnboundLocalError, caught
            /\ ~raises
            /\ WrapperReturnsNone
            /\ UNCHANGED <<callback_raised, broadcast, subject_value, call_ids>>
       ELSE LET message == Message(response_id, chunk[1])
                text == ReturnedText(chunk[1])
            IN  /\ subject_value' = Some(message)
                /\ broadcast' = Append(broadcast, message)
                /\ call_ids' = call_ids \cup {message.id}
                /\ IF raises
                   THEN /\ callback_raised' = TRUE
                        /\ WrapperReturnsNone
                   ELSE /\ UNCHANGED callback_raised
                        /\ json_response' = Some(text)
                        /\ IF ask_entry = "model_ask_json"
                           THEN \* the text is the caller's result
                                /\ result' = None
                                /\ ask_pc' = "done"
                                /\ UNCHANGED <<scratch_pad, current_attempt>>
                           ELSE IF IsValidJson(text)
                           THEN /\ result' = Some(ParsedModel(text))
                                /\ ask_pc' = "done"
                                /\ UNCHANGED <<scratch_pad, current_attempt>>
                           ELSE /\ scratch_pad' = RecordFailure(scratch_pad, Some(text),
                                                                ValidationError(text))
                                /\ current_attempt' = current_attempt + 1
                                /\ result' = None
                                /\ ask_pc' = IF Exhausted(current_attempt + 1)
                                             THEN "done" ELSE "wrapper"
    /\ UNCHANGED <<schema_renders, n_calls, response_id, llm_calls, last_prompt, chunk,
                   yielded, ask_entry, id_supplied, default_ids>>
    /\ UNCHANGED notAsk

AskNext ==
    \/ \E prompt \in Prompts, supplied \in {None} \cup {Some(i) : i \in SuppliedIds} :
           ModelAsk(prompt, supplied)
    \/ ModelAskJsonBegin
    \/ \E delta \in {<<>>} \cup {<<t>> : t \in Tokens}, final \in BOOLEAN,
          raises \in BOOLEAN : StreamChunk(delta, final, raises)
    \/ StreamRaise
    \/ \E raises \in BOOLEAN : StreamEnd(raises)

\* Callers call model_ask_json itself.
AskJsonNext ==
    \/ \E prompt \in Prompts, supplied \in {None} \cup {Some(i) : i \in SuppliedIds} :
           ModelAskJson(prompt, supplied)
    \/ \E delta \in {<<>>} \cup {<<t>> : t \in Tokens}, final \in BOOLEAN,
          raises \in BOOLEAN : StreamChunk(delta, final, raises)
    \/ StreamRaise
    \/ \E raises \in BOOLEAN : StreamEnd(raises)


(***************************************************************************)
(* ======================  Streaming model clients  =====================  *)
(* OpenAIModel.async_chat and OllamaModel.async_chat: generators that turn *)
(* the vendor's stream of deltas into Stream Chunks of accumulated text.   *)
(***************************************************************************)

\* upstream chunks one vendor stream may carry
MaxUpstream == 3

\* What one upstream chunk carries: no choices at all, a delta without content
\* (both OpenAI only), or a delta with a text, which may be empty.
UpstreamKinds == {"no_choices", "content_none", "text"}
Deltas == {<<>>} \cup {<<t>> : t \in Tokens}

\* The number of opening braces of a text.
RECURSIVE Opens(_)
Opens(text) ==
    IF text = <<>> THEN 0
    ELSE (IF text[1] = "{" THEN 1 ELSE 0) + Opens(Tail(text))

\* A text a model in JSON mode can have produced so far: braces opened, then some
\* of them closed.
IsJsonPrefix(text) ==
    /\ \A i \in 1..Len(text) : text[i] = (IF i <= Opens(text) THEN "{" ELSE "}")
    /\ Len(text) <= 2 * Opens(text)

\* partial_json_parser.ensure_json: the partial text with its open braces closed.
EnsureJson(text) ==
    text \o [i \in 1..(2 * Opens(text) - Len(text)) |-> "}"]

ChatInit ==
    /\ chat_provider \in {"openai", "ollama"}
    /\ chat_mode \in {"json", "text"}
    /\ chat_pc = "running"
    /\ upstream_count = 0
    /\ upstream_state = "open"
    /\ current_message = <<>>
    /\ message_chunk = None
    /\ chat_heap = <<>>
    /\ delivered = <<>>

\* The content of a chunk built from the accumulated text (lines 97-101 of the
\* OpenAI client, 82-83 of the Ollama client).
ChunkContent(text) ==
    IF chat_provider = "openai" /\ chat_mode = "json" THEN EnsureJson(text) ELSE text

\* The generators skip an upstream chunk (OpenAI lines 89-96).
Skips(kind, text) ==
    /\ chat_provider = "openai"
    /\ \/ kind \in {"no_choices", "content_none"}
       \/ kind = "text" /\ text = <<>>

\* One turn of the for loop over the vendor stream (OpenAI lines 87-104, Ollama
\* lines 77-86): the chunk is skipped, or a new dict is built and yielded.
ConsumeUpstream(kind, delta) ==
    /\ chat_pc = "running"
    /\ upstream_count < MaxUpstream
    /\ chat_provider = "ollama" => kind = "text"
    /\ kind # "text" => delta = <<>>
    /\ chat_mode = "json" => IsJsonPrefix(current_message \o delta)
    /\ upstream_count' = upstream_count + 1
    /\ LET text == current_message \o delta
       IN  /\ current_message' = (IF kind = "text" THEN text ELSE current_message)
           /\ IF Skips(kind, text)
              THEN UNCHANGED <<message_chunk, chat_heap, delivered>>
              ELSE LET dict == [content |-> ChunkContent(text), is_final_word |-> FALSE]
                   IN  /\ chat_heap' = Append(chat_heap, dict)
                       /\ message_chunk' = Some(Len(chat_heap) + 1)
                       /\ delivered' = Append(delivered,
                                              [ref |-> Len(chat_heap) + 1, value |-> dict])
    /\ UNCHANGED <<chat_provider, chat_mode, chat_pc, upstream_state>>
    /\ UNCHANGED notChat

\* The vendor stream raises: the exception leaves the generator.
UpstreamRaises ==
    /\ chat_pc = "running"
    /\ upstream_state' = "raised"
    /\ chat_pc' = "raised"
    /\ UNCHANGED <<chat_provider, chat_mode, upstream_count, current_message,
                   message_chunk, chat_heap, delivered>>
    /\ UNCHANGED notChat

\* The vendor stream ends: the last dict is flagged and yielded again (OpenAI lines
\* 105-107, Ollama lines 87-88).  With no dict built, message_chunk is unbound.
StreamFinishes ==
    /\ chat_pc = "running"
    /\ upstream_state' = "ended"
    /\ IF message_chunk = None
       THEN /\ chat_pc' = "raised"
            /\ UNCHANGED <<chat_heap, delivered>>
       ELSE LET ref == message_chunk[1]
                dict == [chat_heap[ref] EXCEPT !.is_final_word = TRUE]
            IN  /\ chat_heap' = [chat_heap EXCEPT ![ref] = dict]
                /\ delivered' = Append(delivered, [ref |-> ref, value |-> dict])
                /\ chat_pc' = "finished"
    /\ UNCHANGED <<chat_provider, chat_mode, upstream_count, current_message,
                   message_chunk>>
    /\ UNCHANGED notChat

ChatNext ==
    \/ \E kind \in UpstreamKinds, delta \in Deltas : ConsumeUpstream(kind, delta)
    \/ UpstreamRaises
    \/ StreamFinishes

(***************************************************************************)
(* =====================  Command execution engine  =====================  *)
(* CommandExecutor and PythonCodeInterpreter.  A call of execute or of     *)
(* execute_python_source is a run; runs may come from any threads, so they *)
(* interleave freely.  A subprocess writes lines into its two pipes, each  *)
(* of bounded capacity, and exits.  The subscribers of the log subjects    *)
(* are taken not to raise.                                                 *)
(***************************************************************************)

\* execute / execute_python_source calls made on the executor
MaxRuns == 2
\* lines one subprocess writes before it exits
MaxWrites == 2
\* lines a pipe buffers before the writer blocks
PipeCap == 1

\* What a subprocess may print on a line of standard output, and of standard error.
OutTexts == {<<"out">>, <<"<session>", "{}", "</session>">>,
             <<"<session>", "oops", "</session>">>}
ErrTexts == {<<"Traceback">>}

\* The text of the exception subprocess.Popen raises.
SpawnErrorText == <<"FileNotFoundError: python3">>

\* str.strip: the text without the whitespace at its ends.
RECURSIVE Strip(_)
Strip(text) ==
    IF text = <<>> THEN text
    ELSE IF text[1] = "\n" THEN Strip(Tail(text))
    ELSE IF Last(text) = "\n" THEN Strip(SubSeq(text, 1, Len(text) - 1))
    ELSE text

\* "\n".join(lines)
RECURSIVE Join(_)
Join(lines) ==
    IF lines = <<>> THEN <<>>
    ELSE IF Len(lines) = 1 THEN lines[1]
    ELSE lines[1] \o <<"\n">> \o Join(Tail(lines))

\* The texts of a queue.
Texts(queue) == [i \in 1..Len(queue) |-> queue[i].text]

\* text.replace(marker, "") of a one-token marker.
RECURSIVE Without(_, _)
Without(text, markers) ==
    IF text = <<>> THEN <<>>
    ELSE (IF text[1] \in markers THEN <<>> ELSE <<text[1]>>) \o Without(Tail(text), markers)

\* json.loads: the mapping (a set of key-value pairs) of a JSON object text, which
\* may have whitespace around it; any other text raises.
JsonLoads(text) ==
    IF Strip(text) = <<"{}">> THEN [ok |-> TRUE, value |-> {}]
    ELSE IF Strip(text) = <<"{x:1}">> THEN [ok |-> TRUE, value |-> {<<"x", 1>>}]
    ELSE [ok |-> FALSE, value |-> {}]

\* re.search(r"<session>(.*?)</session>", stdout): the ends (i, j) of the leftmost
\* match, the shortest from its start; "." does not match a line break.
SessionMatches(stdout) ==
    {m \in (1..Len(stdout)) \X (1..Len(stdout)) :
        /\ m[1] < m[2]
        /\ stdout[m[1]] = "<session>"
        /\ stdout[m[2]] = "</session>"
        /\ \A k \in (m[1] + 1)..(m[2] - 1) : stdout[k] \notin {"\n", "</session>"}}

\* PythonCodeInterpreter.__parse_session_stdout
ParseSessionStdout(stdout) ==
    LET matches == SessionMatches(stdout)
    IN  IF matches = {} THEN [ok |-> TRUE, value |-> {}]
        ELSE LET m == CHOOSE m \in matches : \A o \in matches : m[1] <= o[1]
                 content == SubSeq(stdout, m[1], m[2])
             IN  JsonLoads(Without(content, {"<session>", "</session>"}))

\* InterpreterResponse.is_successful
IsSuccessful_always(stderr) == TRUE
IsSuccessful(stderr) == Len(stderr) = 0

\* PythonCodeInterpreter._delete_temp_file
DeleteTempFile_keeps(fs, file_path) == fs
DeleteTempFile(fs, file_path) == fs \ {file_path}

ExecInit ==
    /\ process = None
    /\ should_kill = FALSE
    /\ is_executing = TRUE
    /\ stdout_queue = <<>>
    /\ stderr_queue = <<>>
    /\ log_value = None
    /\ exception_signal = None
    /\ procs = <<>>
    /\ runs = <<>>
    /\ files = {}

Running(pid) == procs[pid].state = "running"

\* The exit statuses a subprocess may end with on its own, and the status of one
\* ended by a signal.
ExitCodes == {0, 1}
SIGNALLED == -15

\* Popen.kill / Popen.terminate: a signal to a subprocess that still runs.
Signalled(ps, pid) ==
    IF ps[pid].state = "running"
    THEN [ps EXCEPT ![pid].state = "killed", ![pid].returncode = SIGNALLED]
    ELSE ps

\* CommandExecutor._handle_kill_process, on the process the executor now owns: the
\* subprocesses and the kill flag it leaves.
HandleKillProcess_keeps_flag(ps) ==
    [procs |-> IF process # None /\ should_kill THEN Signalled(ps, process[1]) ELSE ps,
     should_kill |-> should_kill]
HandleKillProcess(ps) ==
    [procs |-> IF process # None /\ should_kill THEN Signalled(ps, process[1]) ELSE ps,
     should_kill |-> IF process # None THEN FALSE ELSE should_kill]

NewRun(kind, is_async) ==
    [kind |-> kind, is_async |-> is_async, pc |-> "popen", pid |-> None,
     err_pid |-> None, error |-> <<>>, ret |-> None, spawn_failed |-> FALSE,
     active_at_call |-> FALSE, file |-> None, response |-> None,
     kill_at_spawn |-> FALSE, captured_from |-> {}]

\* Popen raised: the except and finally branches of _init_popen (lines 42-46), and
\* execute's return of its result (line 57).
PopenFailed_raises(run) ==
    [run EXCEPT !.pc = "raised", !.spawn_failed = TRUE]
PopenFailed(run) ==
    [run EXCEPT !.pc = "returned", !.spawn_failed = TRUE,
                !.ret = IF run.is_async THEN @ ELSE Some(FALSE)]

\* CommandExecutor.execute up to the call of func (lines 49-57): with a process
\* owned, kill it and refuse; else hand _init_popen to a thread, or run it.
ExecuteCall(run) ==
    LET called == [run EXCEPT !.active_at_call = \E pid \in DOMAIN procs : Running(pid)]
    IN  IF process # None
        THEN /\ procs' = Signalled(procs, process[1])
             /\ runs' = Append(runs, [called EXCEPT !.pc = "refused", !.ret = Some(FALSE)])
        ELSE /\ runs' = Append(runs, [called EXCEPT !.ret = IF run.is_async THEN Some(TRUE)
                                                            ELSE None])
             /\ UNCHANGED procs

\* A caller calls CommandExecutor.execute(command, is_async_execution).
Execute(is_async_execution) ==
    /\ Len(runs) < MaxRuns
    /\ ExecuteCall(NewRun("execute", is_async_execution))
    /\ UNCHANGED <<process, should_kill, is_executing, stdout_queue, stderr_queue,
                   log_value, exception_signal, files>>
    /\ UNCHANGED notExec

\* execute_python_source up to the call of executor.execute (lines 106-113): the
\* temporary file, named by a fresh uuid, is written, and execute is called.
ExecutePythonSource ==
    /\ Len(runs) < MaxRuns
    /\ \A i \in DOMAIN runs : runs[i].kind = "interp" => runs[i].pc \in {"responded", "raised"}
    /\ LET file_name == Len(runs) + 1
       IN  /\ files' = files \cup {file_name}
           /\ ExecuteCall([NewRun("interp", FALSE) EXCEPT !.file = Some(file_name)])
    /\ UNCHANGED <<process, should_kill, is_executing, stdout_queue, stderr_queue,
                   log_value, exception_signal>>
    /\ UNCHANGED notExec

\* _init_popen up to _flush_output's first read (lines 32-40, 64-68): the subprocess
\* is spawned and owned, or Popen raises and False is returned.  The subprocess
\* spawned writes must lines to its standard error before it does anything else.
InitPopen(i, spawns, must) ==
    /\ i \in DOMAIN runs
    /\ runs[i].pc = "popen"
    /\ IF spawns
       THEN /\ procs' = Append(procs, [state |-> "running", returncode |-> 0,
                                       out_open |-> TRUE, written |-> 0,
                                       must_err |-> must,
                                       pipe_out |-> <<>>, pipe_err |-> <<>>])
            /\ process' = Some(Len(procs) + 1)
            /\ runs' = [runs EXCEPT ![i].pc = "stdout", ![i].pid = Some(Len(procs) + 1),
                                    ![i].kill_at_spawn = should_kill]
            /\ is_executing' = TRUE
       ELSE /\ must = 0
            /\ runs' = [runs EXCEPT ![i] = PopenFailed(@)]
            /\ is_executing' = FALSE
            /\ UNCHANGED <<procs, process>>
    /\ UNCHANGED <<should_kill, stdout_queue, stderr_queue, log_value, exception_signal,
                   files>>
    /\ UNCHANGED notExec

\* The subprocess prints a line; it blocks while the pipe is full.
ProcWrite(pid, stream, text) ==
    /\ pid \in DOMAIN procs
    /\ Running(pid)
    /\ procs[pid].written < MaxWrites
    /\ \/ /\ stream = "out"
          /\ procs[pid].must_err = 0
          /\ procs[pid].out_open
          /\ Len(procs[pid].pipe_out) < PipeCap
          /\ procs' = [procs EXCEPT ![pid].pipe_out = Append(@, text \o <<"\n">>),
                                    ![pid].written = @ + 1]
       \/ /\ stream = "err"
          /\ Len(procs[pid].pipe_err) < PipeCap
          /\ procs' = [procs EXCEPT ![pid].pipe_err = Append(@, text \o <<"\n">>),
                                    ![pid].written = @ + 1,
                                    ![pid].must_err = IF @ > 0 THEN @ - 1 ELSE 0]
    /\ UNCHANGED <<process, should_kill, is_executing, stdout_queue, stderr_queue,
                   log_value, exception_signal, runs, files>>
    /\ UNCHANGED notExec

\* The subprocess closes its standard output and goes on running.
ProcCloseStdout(pid) ==
    /\ pid \in DOMAIN procs
    /\ Running(pid)
    /\ procs[pid].must_err = 0
    /\ procs[pid].out_open
    /\ procs' = [procs EXCEPT ![pid].out_open = FALSE]
    /\ UNCHANGED <<process, should_kill, is_executing, stdout_queue, stderr_queue,
                   log_value, exception_signal, runs, files>>
    /\ UNCHANGED notExec

\* The subprocess exits on its own, with an exit status.
ProcExit(pid, code) ==
    /\ pid \in DOMAIN procs
    /\ Running(pid)
    /\ procs[pid].must_err = 0
    /\ procs' = [procs EXCEPT ![pid].state = "exited", ![pid].returncode = code]
    /\ UNCHANGED <<process, should_kill, is_executing, stdout_queue, stderr_queue,
                   log_value, exception_signal, runs, files>>
    /\ UNCHANGED notExec

\* One turn of the stdout loop of _flush_output (lines 68-72).
ReadStdoutLine(i) ==
    /\ i \in DOMAIN runs
    /\ runs[i].pc = "stdout"
    /\ LET pid == runs[i].pid[1]
           line == Strip(Head(procs[pid].pipe_out))
       IN  /\ procs[pid].pipe_out # <<>>
           /\ log_value' = Some(line)
           /\ stdout_queue' = Append(stdout_queue, [pid |-> pid, text |-> line])
           /\ LET after == HandleKillProcess([procs EXCEPT ![pid].pipe_out = Tail(@)])
              IN  /\ procs' = after.procs
                  /\ should_kill' = after.should_kill
    /\ UNCHANGED <<process, is_executing, stderr_queue, exception_signal, runs, files>>
    /\ UNCHANGED notExec

\* The stdout loop ends at end of file, when the subprocess has closed its standard
\* output or has ended; the stderr loop starts on the stderr of the process the
\* executor owns by then (line 73).
StdoutEof(i) ==
    /\ i \in DOMAIN runs
    /\ runs[i].pc = "stdout"
    /\ procs[runs[i].pid[1]].pipe_out = <<>>
    /\ (~Running(runs[i].pid[1]) \/ ~procs[runs[i].pid[1]].out_open)
    /\ runs' = [runs EXCEPT ![i].pc = "stderr", ![i].err_pid = process, ![i].error = <<>>]
    /\ UNCHANGED <<process, should_kill, is_executing, stdout_queue, stderr_queue,
                   log_value, exception_signal, procs, files>>
    /\ UNCHANGED notExec

\* One turn of the stderr loop of _flush_output (lines 75-79).
ReadStderrLine(i) ==
    /\ i \in DOMAIN runs
    /\ runs[i].pc = "stderr"
    /\ LET pid == runs[i].err_pid[1]
           line == Head(procs[pid].pipe_err)
       IN  /\ procs[pid].pipe_err # <<>>
           /\ stderr_queue' = Append(stderr_queue, [pid |-> pid, text |-> line])
           /\ log_value' = Some(line)
           /\ runs' = [runs EXCEPT ![i].error = @ \o Strip(line)]
           /\ procs' = [procs EXCEPT ![pid].pipe_err = Tail(@)]
    /\ UNCHANGED <<process, should_kill, is_executing, stdout_queue, exception_signal,
                   files>>
    /\ UNCHANGED notExec

\* The stderr loop ends: the rest of _flush_output (lines 81-86) and of _init_popen
\* (lines 41, 45-46).
StderrEof(i) ==
    /\ i \in DOMAIN runs
    /\ runs[i].pc = "stderr"
    /\ procs[runs[i].err_pid[1]].pipe_err = <<>>
    /\ ~Running(runs[i].err_pid[1])
    /\ log_value' = Some(runs[i].error)
    /\ exception_signal' = Some(runs[i].error)
    /\ procs' = HandleKillProcess(procs).procs
    /\ should_kill' = HandleKillProcess(procs).should_kill
    /\ is_executing' = FALSE
    /\ runs' = [runs EXCEPT ![i].pc = "returned",
                            ![i].ret = IF runs[i].is_async THEN @ ELSE Some(TRUE)]
    /\ UNCHANGED <<process, stdout_queue, stderr_queue, files>>
    /\ UNCHANGED notExec

\* CommandExecutor.kill_current_process
KillCurrentProcess ==
    /\ ~should_kill
    /\ should_kill' = TRUE
    /\ UNCHANGED <<process, is_executing, stdout_queue, stderr_queue, log_value,
                   exception_signal, procs, runs, files>>
    /\ UNCHANGED notExec

\* execute_python_source after executor.execute returned (lines 115-128).
ExecutePythonSourceEnd(i) ==
    /\ i \in DOMAIN runs
    /\ runs[i].kind = "interp"
    /\ runs[i].pc \in {"returned", "refused"}
    /\ files' = DeleteTempFile(files, runs[i].file[1])
    /\ LET stdout == Join(Texts(stdout_queue))
           stderr == Join(Texts(stderr_queue))
           session == ParseSessionStdout(stdout)
           from == {stdout_queue[k].pid : k \in DOMAIN stdout_queue}
                       \cup {stderr_queue[k].pid : k \in DOMAIN stderr_queue}
       IN  IF session.ok
           THEN runs' = [runs EXCEPT ![i].pc = "responded",
                             ![i].captured_from = from,
                             ![i].response = Some([response_id |-> runs[i].file[1],
                                                   stdout |-> stdout,
                                                   stderr |-> stderr,
                                                   session |-> session.value,
                                                   is_successful |-> IsSuccessful(stderr)])]
           ELSE \* json.loads raises JSONDecodeError
                runs' = [runs EXCEPT ![i].pc = "raised"]
    /\ UNCHANGED <<process, should_kill, is_executing, stdout_queue, stderr_queue,
                   log_value, exception_signal, procs>>
    /\ UNCHANGED notExec

\* The steps of a run of _init_popen and of its subprocess, which prints lines
\* drawn from outs and errs, after as many lines to its standard error as musts
\* allows.
RunNext(outs, errs, musts) ==
    \/ \E i \in 1..MaxRuns, spawns \in BOOLEAN, must \in musts : InitPopen(i, spawns, must)
    \/ \E pid \in 1..MaxRuns, text \in outs : ProcWrite(pid, "out", text)
    \/ \E pid \in 1..MaxRuns, text \in errs : ProcWrite(pid, "err", text)
    \/ \E pid \in 1..MaxRuns, code \in ExitCodes : ProcExit(pid, code)
    \/ \E i \in 1..MaxRuns : ReadStdoutLine(i)
    \/ \E i \in 1..MaxRuns : StdoutEof(i)
    \/ \E i \in 1..MaxRuns : ReadStderrLine(i)
    \/ \E i \in 1..MaxRuns : StderrEof(i)
    \/ KillCurrentProcess

\* Callers on any threads use one CommandExecutor.
ExecNext ==
    \/ \E is_async_execution \in BOOLEAN : Execute(is_async_execution)
    \/ RunNext({<<"out">>}, ErrTexts, {0})

\* One thread uses PythonCodeInterpreter on one CommandExecutor, call after call,
\* as PyGPT.async_chat does; another may call kill_current_process.
InterpNext ==
    \/ ExecutePythonSource
    \/ \E i \in 1..MaxRuns : ExecutePythonSourceEnd(i)
    \/ \E pid \in 1..MaxRuns : ProcCloseStdout(pid)
    \/ RunNext(OutTexts, ErrTexts, 0..MaxWrites)

(***************************************************************************)
(* ========================  Session extraction  ========================  *)
(* PythonCodeInterpreter.__parse_session_stdout as a function of the       *)
(* captured stdout.                                                        *)
(***************************************************************************)

\* tokens in a captured stdout
MaxStdout == 4

StdoutTokens == {"<session>", "</session>", "{x:1}", "\n", "out"}
StdoutTexts == UNION {[1..n -> StdoutTokens] : n \in 0..MaxStdout}

ParseInit ==
    /\ parse_stdout \in StdoutTexts
    /\ parse_pc = "called"
    /\ parse_session = {}

\* self.__parse_session_stdout(stdout) returns the mapping, or json.loads raises.
ParseSessionCall ==
    /\ parse_pc = "called"
    /\ LET session == ParseSessionStdout(parse_stdout)
       IN  /\ parse_pc' = IF session.ok THEN "returned" ELSE "raised"
           /\ parse_session' = session.value
    /\ UNCHANGED parse_stdout
    /\ UNCHANGED notParse

ParseNext == ParseSessionCall

(***************************************************************************)
(* ==========================  Schema closure  ==========================  *)
(* recursively_search_base_model_dependencies over a set of model classes. *)
(* An annotation is a class (origin "") or a generic alias, Union[...] or  *)
(* list[...], of annotations.                                              *)
(***************************************************************************)

\* fields of one model class
MaxFields == 2
\* frames of dfs the interpreter allows before it raises RecursionError
RecursionLimit == 6

\* The model classes (subclasses of BaseModel).
Shapes == {"A", "B"}

Type(name) == [origin |-> "", name |-> name, args |-> <<>>]
Generic(origin, args) == [origin |-> origin, name |-> "", args |-> args]

\* The annotations a field may have: a primitive, a model class, and a model class
\* in a union, in a collection, in a collection in a union, in a union in a
\* collection.
Annotations ==
    {Type("int")} \cup UNION {
        {Type(x),
         Generic("Union", <<Type(x), Type("None")>>),
         Generic("list", <<Type(x)>>),
         Generic("Union", <<Generic("list", <<Type(x)>>), Type("None")>>),
         Generic("list", <<Generic("Union", <<Type(x), Type("int")>>)>>)} : x \in Shapes}

FieldLists == UNION {[1..n -> Annotations] : n \in 0..MaxFields}
Schemas == [Shapes -> FieldLists]

\* _optional_mro: a typing alias such as Union[...] has no __mro__ (None); list[...]
\* answers with the one of list; a class with its own.
HasMro(type) == type.origin # "Union"
IsBaseModel(type) == type.origin = "" /\ type.name \in Shapes

\* The types dfs is called on for a field (lines 29-49).
FieldTargets(annotation) ==
    IF annotation.origin = "Union" THEN annotation.args
    ELSE IF annotation.origin \in {"list", "tuple", "set"} THEN annotation.args
    ELSE <<annotation>>

\* dfs (lines 19-49) in frame number depth: the deps it leaves, or RecursionError
\* from a frame beyond the limit, which nothing catches.
RECURSIVE Dfs(_, _, _, _), DfsFields(_, _, _, _), DfsEach(_, _, _, _)
Dfs(schema, type, deps, depth) ==
    IF depth > RecursionLimit THEN [raised |-> TRUE, deps |-> {}]
    ELSE IF ~HasMro(type) THEN [raised |-> FALSE, deps |-> deps]
    ELSE IF ~IsBaseModel(type) THEN [raised |-> FALSE, deps |-> deps]
    ELSE DfsFields(schema, schema[type.name], deps \cup {type.name}, depth)

DfsFields(schema, fields, deps, depth) ==
    IF fields = <<>> THEN [raised |-> FALSE, deps |-> deps]
    ELSE LET done == DfsEach(schema, FieldTargets(Head(fields)), deps, depth)
         IN  IF done.raised THEN done
             ELSE DfsFields(schema, Tail(fields), done.deps, depth)

DfsEach(schema, types, deps, depth) ==
    IF types = <<>> THEN [raised |-> FALSE, deps |-> deps]
    ELSE LET done == Dfs(schema, Head(types), deps, depth + 1)
         IN  IF done.raised THEN done
             ELSE DfsEach(schema, Tail(types), done.deps, depth)

ClosureInit ==
    /\ closure_schema \in Schemas
    /\ closure_root \in Shapes
    /\ closure_pc = "called"
    /\ closure_deps = {}

\* recursively_search_base_model_dependencies(source_cls)
RecursivelySearchBaseModelDependencies ==
    /\ closure_pc = "called"
    /\ LET done == Dfs(closure_schema, Type(closure_root), {}, 1)
       IN  /\ closure_pc' = IF done.raised THEN "raised" ELSE "returned"
           /\ closure_deps' = done.deps
    /\ UNCHANGED <<closure_schema, closure_root>>
    /\ UNCHANGED notClosure

ClosureNext == RecursivelySearchBaseModelDependencies

(***************************************************************************)
(* ========================  Broadcast channel  =========================  *)
(* BehaviorSubject and its Observable.  Callers on any threads, and the    *)
(* callbacks themselves, subscribe and call next, so that emissions        *)
(* interleave; a callback may raise.  A callback is unsubscribed only      *)
(* while no emission is in progress.                                       *)
(***************************************************************************)

\* next calls made on the subject
MaxNext == 2
\* subscribe calls made on the subject
MaxSubscribes == 2

Callbacks == {"f", "g"}
Values == {"v1", "v2"}

SubjectInit ==
    /\ bs_value = None
    /\ subscribers = <<>>
    /\ emissions = <<>>
    /\ invocations = {}
    /\ n_subscribes = 0

\* BehaviorSubject.subscribe / Observable.subscribe
Subscribe(subscriber) ==
    /\ n_subscribes < MaxSubscribes
    /\ n_subscribes' = n_subscribes + 1
    /\ subscribers' = Append(subscribers, [callback |-> subscriber, seen |-> Len(emissions)])
    /\ UNCHANGED <<bs_value, emissions, invocations>>
    /\ UNCHANGED notSubject

\* list.remove: the list without the first entry of the callback.
RECURSIVE Remove_last(_, _)
Remove_last(list, subscriber) ==
    IF list = <<>> THEN <<>>
    ELSE IF Last(list).callback = subscriber THEN SubSeq(list, 1, Len(list) - 1)
    ELSE Remove_last(SubSeq(list, 1, Len(list) - 1), subscriber) \o <<Last(list)>>

RECURSIVE Remove(_, _)
Remove(list, subscriber) ==
    IF list = <<>> THEN <<>>
    ELSE IF Head(list).callback = subscriber THEN Tail(list)
    ELSE <<Head(list)>> \o Remove(Tail(list), subscriber)

\* Observable.unsubscribe, of a subscribed callback
Unsubscribe(subscriber) ==
    /\ \E k \in DOMAIN subscribers : subscribers[k].callback = subscriber
    /\ \A e \in DOMAIN emissions : emissions[e].state # "running"
    /\ subscribers' = Remove(subscribers, subscriber)
    /\ UNCHANGED <<bs_value, emissions, invocations, n_subscribes>>
    /\ UNCHANGED notSubject

\* Observable.unsubscribe of a subscribed callback while emit's loop runs: in a
\* callback, or on another thread.
UnsubscribeInCallback(subscriber) ==
    /\ \E k \in DOMAIN subscribers : subscribers[k].callback = subscriber
    /\ \E e \in DOMAIN emissions : emissions[e].state = "running"
    /\ subscribers' = Remove(subscribers, subscriber)
    /\ UNCHANGED <<bs_value, emissions, invocations, n_subscribes>>
    /\ UNCHANGED notSubject

\* self._value = value (line 51)
NextValue_keeps_first(old, value) == IF old = None THEN Some(value) ELSE old
NextValue(old, value) == Some(value)

\* BehaviorSubject.next up to emit's loop (lines 51-52, 22)
Next(value) ==
    /\ Len(emissions) < MaxNext
    /\ bs_value' = NextValue(bs_value, value)
    /\ emissions' = Append(emissions, [value |-> value, at |-> 1, state |-> "running",
                                       registered |-> subscribers])
    /\ UNCHANGED <<subscribers, invocations, n_subscribes>>
    /\ UNCHANGED notSubject

\* The subscriber the loop of emit reaches at a place of the list.
EmitTarget_reversed(list, at) == list[Len(list) + 1 - at]
EmitTarget(list, at) == list[at]

\* One turn of emit's loop (lines 22-23): the callback is called, and returns or
\* raises; what it raises leaves emit and next.
Invoke(e, raises) ==
    /\ e \in DOMAIN emissions
    /\ emissions[e].state = "running"
    /\ emissions[e].at <= Len(subscribers)
    /\ invocations' = invocations \cup {[sub |-> EmitTarget(subscribers, emissions[e].at),
                                          value |-> emissions[e].value,
                                          emission |-> e,
                                          turn |-> emissions[e].at]}
    /\ emissions' = [emissions EXCEPT ![e].at = @ + 1,
                                      ![e].state = IF raises THEN "raised" ELSE @]
    /\ UNCHANGED <<bs_value, subscribers, n_subscribes>>
    /\ UNCHANGED notSubject

\* emit's loop is at the end of the list: emit and next return.
EmitReturns(e) ==
    /\ e \in DOMAIN emissions
    /\ emissions[e].state = "running"
    /\ emissions[e].at > Len(subscribers)
    /\ emissions' = [emissions EXCEPT ![e].state = "returned"]
    /\ UNCHANGED <<bs_value, subscribers, invocations, n_subscribes>>
    /\ UNCHANGED notSubject

\* Nothing but their names tells two callbacks, or two values, apart: the first
\* callback a run subscribes is taken to be f, the first value it emits v1.
NewCallbacks == IF n_subscribes = 0 THEN {"f"} ELSE Callbacks
NewValues == IF emissions = <<>> THEN {"v1"} ELSE Values

SubjectNext ==
    \/ \E subscriber \in NewCallbacks : Subscribe(subscriber)
    \/ \E subscriber \in Callbacks : Unsubscribe(subscriber)
    \/ \E value \in NewValues : Next(value)
    \/ \E e \in 1..MaxNext, raises \in BOOLEAN : Invoke(e, raises)
    \/ \E e \in 1..MaxNext : EmitReturns(e)

\* Callers that also unsubscribe while an emission runs.
SubjectLiveNext ==
    \/ SubjectNext
    \/ \E subscriber \in Callbacks : UnsubscribeInCallback(subscriber)

(***************************************************************************)
(* ===========================  Source rewrite  =========================  *)
(* common_utils.inject_decorator_for_source_code on the lines of a script. *)
(* A line is one token; a text is a sequence of tokens, "\n" between lines.*)
(***************************************************************************)

\* lines in a script
MaxLines == 3

\* The lines of a script: a function definition, a function definition inside a
\* block, a coroutine definition, a statement.
SourceLines == {"def f(x):", "    def g(y):", "async def h(z):", "x = 1"}

\* func_pattern.match(line), with the pattern ^\s*def\s+\w+\s*\(
FuncPatternMatches(line) == line \in {"def f(x):", "    def g(y):"}

\* decorator_line = f"@{decorator_name}\n", for inject_locals_decorator
DecoratorLine == <<"@inject_locals_decorator", "\n">>

\* What one turn of the loop appends to modified_lines (lines 81-84).
Appended(line) ==
    (IF FuncPatternMatches(line) THEN <<DecoratorLine>> ELSE <<>>) \o <<<<line>>>>

RewriteInit ==
    /\ rewrite_lines \in UNION {[1..n -> SourceLines] : n \in 1..MaxLines}
    /\ rewrite_at = 0
    /\ modified_lines = <<>>
    /\ rewrite_pc = "called"
    /\ rewrite_result = <<>>

\* One turn of the loop over lines.
RewriteLine ==
    /\ rewrite_pc = "called"
    /\ rewrite_at < Len(rewrite_lines)
    /\ modified_lines' = modified_lines \o Appended(rewrite_lines[rewrite_at + 1])
    /\ rewrite_at' = rewrite_at + 1
    /\ UNCHANGED <<rewrite_lines, rewrite_pc, rewrite_result>>
    /\ UNCHANGED notRewrite

\* return "\n".join(modified_lines)
RewriteReturn ==
    /\ rewrite_pc = "called"
    /\ rewrite_at = Len(rewrite_lines)
    /\ rewrite_result' = Join(modified_lines)
    /\ rewrite_pc' = "returned"
    /\ UNCHANGED <<rewrite_lines, rewrite_at, modified_lines>>
    /\ UNCHANGED notRewrite

RewriteNext == RewriteLine \/ RewriteReturn

(***************************************************************************)
(* ================================  PyGPT  =============================  *)
(* PyGPT.async_chat: a plan from model_ask, its execution by the           *)
(* interpreter, and the call of the narration model.                       *)
(***************************************************************************)

\* async_chat calls made one after the other
MaxChats == 2

\* The PythonSource values model_ask may return.
PySources == {[code |-> <<"print(1)">>], [code |-> <<"raise ValueError">>]}

\* The InterpreterResponse values execute_python_source may return for a source.
Responses(source) ==
    {[source |-> source,
      code_executed |-> <<"inject_locals_decorator">> \o source.code,
      stdout |-> out,
      stderr |-> err,
      is_successful |-> IsSuccessful(err)] : out \in OutTexts, err \in {<<>>} \cup ErrTexts}

\* TypeError("[UNABLE TO MODEL PY SOURCE] ...") (lines 62-64)
UnableToModel == [type |-> "TypeError", source_code |-> <<>>, stderr |-> <<>>]

\* PythonInterpreterError(optional_py_source.code, response.stderr or "") (line 69)
InterpreterFailed_executed_code(source, response) ==
    [type |-> "PythonInterpreterError", source_code |-> response.code_executed,
     stderr |-> response.stderr]
InterpreterFailed(source, response) ==
    [type |-> "PythonInterpreterError", source_code |-> source.code,
     stderr |-> response.stderr]

\* An exception of a callee, which async_chat does not catch.
Propagated(type) == [type |-> type, source_code |-> <<>>, stderr |-> <<>>]

GptInit ==
    /\ gpt_pc = "idle"
    /\ gpt_chats = 0
    /\ gpt_plan = None
    /\ gpt_response = None
    /\ gpt_trace = <<>>
    /\ gpt_error = None
    /\ gpt_system_prompt = None

\* async_chat is called and calls py_source_cls.model_ask (lines 58-60).
AsyncChat ==
    /\ gpt_pc \in {"idle", "returned", "raised"}
    /\ gpt_chats < MaxChats
    /\ gpt_chats' = gpt_chats + 1
    /\ gpt_pc' = "planning"
    /\ gpt_trace' = <<"model_ask">>
    /\ gpt_plan' = None
    /\ gpt_response' = None
    /\ gpt_error' = None
    /\ UNCHANGED gpt_system_prompt
    /\ UNCHANGED notGpt

\* model_ask returns None or a PythonSource: the TypeError, or the call of
\* execute_python_source (lines 61-66).
ModelAskReturns(optional_py_source) ==
    /\ gpt_pc = "planning"
    /\ gpt_plan' = Some(optional_py_source)
    /\ IF optional_py_source = None
       THEN /\ gpt_pc' = "raised"
            /\ gpt_error' = Some(UnableToModel)
            /\ UNCHANGED gpt_trace
       ELSE /\ gpt_pc' = "executing"
            /\ gpt_trace' = Append(gpt_trace, "execute_python_source")
            /\ UNCHANGED gpt_error
    /\ UNCHANGED <<gpt_chats, gpt_response, gpt_system_prompt>>
    /\ UNCHANGED notGpt

\* model_ask raises, when the schema of the source class cannot be rendered.
ModelAskRaises ==
    /\ gpt_pc = "planning"
    /\ gpt_pc' = "raised"
    /\ gpt_error' = Some(Propagated("OSError"))
    /\ UNCHANGED <<gpt_chats, gpt_plan, gpt_response, gpt_trace, gpt_system_prompt>>
    /\ UNCHANGED notGpt

\* execute_python_source returns a response: the PythonInterpreterError, or the
\* system prompt and the call of the narration model (lines 68-77).
ExecuteReturns(response) ==
    /\ gpt_pc = "executing"
    /\ gpt_response' = Some(response)
    /\ IF ~response.is_successful
       THEN /\ gpt_pc' = "raised"
            /\ gpt_error' = Some(InterpreterFailed(gpt_plan[1][1], response))
            /\ UNCHANGED <<gpt_trace, gpt_system_prompt>>
       ELSE /\ gpt_system_prompt' = Some(response)
            /\ gpt_trace' = Append(gpt_trace, "gpt_llm.async_chat")
            /\ gpt_pc' = "returned"
            /\ UNCHANGED gpt_error
    /\ UNCHANGED <<gpt_chats, gpt_plan>>
    /\ UNCHANGED notGpt

\* execute_python_source raises, when the session text is not JSON.
ExecuteRaises ==
    /\ gpt_pc = "executing"
    /\ gpt_pc' = "raised"
    /\ gpt_error' = Some(Propagated("JSONDecodeError"))
    /\ UNCHANGED <<gpt_chats, gpt_plan, gpt_response, gpt_trace, gpt_system_prompt>>
    /\ UNCHANGED notGpt

GptNext ==
    \/ AsyncChat
    \/ \E optional_py_source \in {None} \cup {Some(source) : source \in PySources} :
           ModelAskReturns(optional_py_source)
    \/ ModelAskRaises
    \/ \E source \in PySources : \E response \in Responses(source) :
           gpt_plan = Some(Some(source)) /\ ExecuteReturns(response)
    \/ ExecuteRaises

(***************************************************************************)
(* ==========================  Specifications  ==========================  *)
(***************************************************************************)

\* A subsystem that is not running.
AskIdle == AskInit /\ schema_renders
ChatIdle == ChatInit /\ chat_provider = "openai" /\ chat_mode = "json"
ExecIdle == ExecInit
ParseIdle == parse_stdout = <<>> /\ ParseInit
ClosureIdle ==
    closure_schema = [x \in Shapes |-> <<>>] /\ closure_root = "A" /\ ClosureInit
SubjectIdle == SubjectInit
RewriteIdle == rewrite_lines = <<"x = 1">> /\ RewriteInit
GptIdle == GptInit

\* The structured-generation protocol with a stub model client.
InitAsk ==
    AskInit /\ ChatIdle /\ ExecIdle /\ ParseIdle /\ ClosureIdle /\ SubjectIdle
        /\ RewriteIdle /\ GptIdle
SpecAsk == InitAsk /\ [][AskNext]_vars

\* model_ask_json called by itself, with a stub model client.
InitAskJson ==
    AskInit /\ ChatIdle /\ ExecIdle /\ ParseIdle /\ ClosureIdle /\ SubjectIdle
        /\ RewriteIdle /\ GptIdle
SpecAskJson == InitAskJson /\ [][AskJsonNext]_vars

\* The streaming model clients over a vendor stream.
InitChat ==
    ChatInit /\ AskIdle /\ ExecIdle /\ ParseIdle /\ ClosureIdle /\ SubjectIdle
        /\ RewriteIdle /\ GptIdle
SpecChat == InitChat /\ [][ChatNext]_vars

\* The command executor under concurrent callers.
InitExec ==
    ExecInit /\ AskIdle /\ ChatIdle /\ ParseIdle /\ ClosureIdle /\ SubjectIdle
        /\ RewriteIdle /\ GptIdle
SpecExec == InitExec /\ [][ExecNext]_vars

\* The interpreter on one thread.
InitInterp ==
    ExecInit /\ AskIdle /\ ChatIdle /\ ParseIdle /\ ClosureIdle /\ SubjectIdle
        /\ RewriteIdle /\ GptIdle
SpecInterp == InitInterp /\ [][InterpNext]_vars

\* __parse_session_stdout on every short stdout.
InitParse ==
    ParseInit /\ AskIdle /\ ChatIdle /\ ExecIdle /\ ClosureIdle /\ SubjectIdle
        /\ RewriteIdle /\ GptIdle
SpecParse == InitParse /\ [][ParseNext]_vars

\* The schema closure of every small set of model classes.
InitClosure ==
    ClosureInit /\ AskIdle /\ ChatIdle /\ ExecIdle /\ ParseIdle /\ SubjectIdle
        /\ RewriteIdle /\ GptIdle
SpecClosure == InitClosure /\ [][ClosureNext]_vars

\* One BehaviorSubject used by callers on any threads.
InitSubject ==
    SubjectInit /\ AskIdle /\ ChatIdle /\ ExecIdle /\ ParseIdle /\ ClosureIdle
        /\ RewriteIdle /\ GptIdle
SpecSubject == InitSubject /\ [][SubjectNext]_vars

\* One BehaviorSubject whose callers also unsubscribe during emissions.
InitSubjectLive ==
    SubjectInit /\ AskIdle /\ ChatIdle /\ ExecIdle /\ ParseIdle /\ ClosureIdle
        /\ RewriteIdle /\ GptIdle
SpecSubjectLive == InitSubjectLive /\ [][SubjectLiveNext]_vars

\* inject_decorator_for_source_code on every script of the bounded set.
InitRewrite ==
    RewriteInit /\ AskIdle /\ ChatIdle /\ ExecIdle /\ ParseIdle /\ ClosureIdle
        /\ SubjectIdle /\ GptIdle
SpecRewrite == InitRewrite /\ [][RewriteNext]_vars

\* PyGPT.async_chat with stub models and a stub interpreter.
InitGpt ==
    GptInit /\ AskIdle /\ ChatIdle /\ ExecIdle /\ ParseIdle /\ ClosureIdle
        /\ SubjectIdle /\ RewriteIdle
SpecGpt == InitGpt /\ [][GptNext]_vars

(***************************************************************************)
(* Claims about the structured-generation protocol (under SpecAsk).        *)
(***************************************************************************)

C3_EmptyStreamIsRetried ==
    [][(ask_entry = "model_ask" /\ stream_state = "open" /\ yielded = <<>>
            /\ stream_state' = "ended")
          => /\ scratch_pad'.error # <<>>
             /\ current_attempt' = current_attempt + 1
             /\ ask_pc' = (IF current_attempt' > MAX_ATTEMPT THEN "done" ELSE "wrapper")]_vars

C5_OneEmissionPerChunk ==
    (stream_state = "ended" /\ Len(yielded) >= 1 /\ ~callback_raised)
        => /\ Len(broadcast) = Len(yielded)
           /\ \A i \in 1..Len(yielded) : i <= Len(broadcast) =>
                  broadcast[i] = [id |-> response_id, chunk_message |-> yielded[i]]
           /\ \A i \in 1..Len(broadcast) :
                  broadcast[i].chunk_message.is_final_word <=> (i = Len(broadcast))
           /\ json_response = Some(Last(yielded).content)

(***************************************************************************)
(* Claims about the streaming model clients (under SpecChat).              *)
(***************************************************************************)

\* C6: for every response a client streams, the terminal-flagged chunk is the last
\* chunk and is delivered exactly once, also when the vendor stream carries no
\* content chunk: an empty terminal chunk is then yielded, the generator does not
\* fail.
C6_TerminalChunkOnce ==
    /\ \A i \in 1..Len(delivered) :
           delivered[i].value.is_final_word => (i = Len(delivered) /\ chat_pc = "finished")
    /\ chat_pc = "finished"
           => (delivered # <<>> /\ Last(delivered).value.is_final_word)
    /\ chat_pc = "raised" => upstream_state = "raised"

(***************************************************************************)
(* Claims about the command executor.                                     *)
(***************************************************************************)

\* The text holds the token.
Contains(text, token) == \E k \in 1..Len(text) : text[k] = token

\* C7 (SpecExec): whatever the interleaving of execute calls on one CommandExecutor,
\* at most one subprocess it spawned runs at any time, and an execute call made
\* while a subprocess is active returns False without spawning.
C7_AtMostOneSubprocess ==
    /\ Cardinality({pid \in DOMAIN procs : Running(pid)}) <= 1
    /\ \A i \in DOMAIN runs :
           runs[i].active_at_call
               => (runs[i].pc = "refused" /\ runs[i].ret = Some(FALSE) /\ runs[i].pid = None)

\* C8 (SpecExec): execute refuses a request only when a subprocess of the executor
\* is still active at the time of the call; once the previous subprocess has
\* terminated, a new execute spawns the new command.
C8_RefusesOnlyWhileActive ==
    \A i \in DOMAIN runs : runs[i].pc = "refused" => runs[i].active_at_call

\* C9 (SpecInterp): when the subprocess cannot be spawned, execute_python_source
\* returns an InterpreterResponse with empty stdout, with the spawn-error text in
\* stderr, and with is_successful false.
C9_SpawnFailureReported ==
    \A i \in DOMAIN runs :
        (runs[i].spawn_failed /\ runs[i].pc \in {"responded", "raised"})
            => /\ runs[i].pc = "responded"
               /\ runs[i].response[1].stdout = <<>>
               /\ Contains(runs[i].response[1].stderr, SpawnErrorText[1])
               /\ ~runs[i].response[1].is_successful

\* C10 (SpecInterp): after an execute_python_source call has returned or raised,
\* whatever the subprocess did, the temporary source file of that call is no
\* longer on disk.
C10_TempFileRemoved ==
    \A i \in DOMAIN runs :
        (runs[i].kind = "interp" /\ runs[i].pc \in {"responded", "raised"})
            => runs[i].file[1] \notin files

\* A call that could not spawn has returned, a later one has raised on its session
\* block, and both files are gone.
C10_Witness ==
    \E i, j \in DOMAIN runs :
        /\ runs[i].spawn_failed /\ runs[i].pc = "responded"
        /\ runs[j].pc = "raised" /\ runs[j].pid # None
        /\ runs[i].file[1] \notin files
        /\ runs[j].file[1] \notin files

\* C11 (SpecInterp): execute_python_source returns an InterpreterResponse for every
\* outcome of the subprocess and every captured stdout, also one whose <session>
\* block is not valid JSON: it never propagates an exception.
C11_AlwaysResponds ==
    \A i \in DOMAIN runs : runs[i].kind = "interp" => runs[i].pc # "raised"

\* C12 (SpecInterp): in every InterpreterResponse, is_successful is true exactly
\* when the captured stderr is empty, whatever stdout holds and whatever the exit
\* status of the subprocess.
C12_SuccessIffNoStderr ==
    \A i \in DOMAIN runs :
        runs[i].pc = "responded"
            => (runs[i].response[1].is_successful <=> runs[i].response[1].stderr = <<>>)

\* A subprocess that exited with status 0 after printing on both streams gave a
\* failed response.
C12_Witness ==
    \E i \in DOMAIN runs :
        /\ runs[i].pc = "responded"
        /\ runs[i].pid # None
        /\ procs[runs[i].pid[1]].state = "exited"
        /\ procs[runs[i].pid[1]].returncode = 0
        /\ runs[i].response[1].stdout # <<>>
        /\ runs[i].response[1].stderr # <<>>
        /\ ~runs[i].response[1].is_successful

\* C14 (SpecInterp): with kill_current_process called while the subprocess of the
\* executor runs, the subprocess is terminated right after the next line, of stdout
\* or of stderr, that the executor captures, and the kill flag is cleared.
C14_KilledAfterNextLine ==
    [][(/\ should_kill
        /\ process # None
        /\ Running(process[1])
        /\ (stdout_queue' # stdout_queue \/ stderr_queue' # stderr_queue))
           => (procs'[process[1]].state # "running" /\ ~should_kill')]_vars

(***************************************************************************)
(* Claims about session extraction (under SpecParse).                      *)
(***************************************************************************)

\* The positions of a marker in a text.
Positions(text, marker) == {k \in 1..Len(text) : text[k] = marker}

\* The smallest of a non-empty set of numbers.
Least(numbers) == CHOOSE n \in numbers : \A o \in numbers : n <= o

\* The stdout holds a <session>...</session> block: an end marker after the first
\* start marker.
HasSessionBlock(stdout) ==
    /\ Positions(stdout, "<session>") # {}
    /\ \E e \in Positions(stdout, "</session>") :
           e > Least(Positions(stdout, "<session>"))

\* The text between the first start marker and the first end marker after it.
SessionBlockText(stdout) ==
    LET start == Least(Positions(stdout, "<session>"))
        end == Least({e \in Positions(stdout, "</session>") : e > start})
    IN  SubSeq(stdout, start + 1, end - 1)

\* C13: when the captured stdout holds a <session>...</session> block, the session
\* state is the JSON object parsed from the text between the first start marker and
\* the first end marker after it, whatever lies outside the markers; when it holds
\* no block, the session state is the empty mapping and nothing is raised.
C13_SessionExtraction ==
    parse_pc # "called" =>
        IF HasSessionBlock(parse_stdout)
        THEN JsonLoads(SessionBlockText(parse_stdout)).ok
                 => /\ parse_pc = "returned"
                    /\ parse_session = JsonLoads(SessionBlockText(parse_stdout)).value
        ELSE parse_pc = "returned" /\ parse_session = {}

(***************************************************************************)
(* Claims about the schema closure (under SpecClosure).                    *)
(***************************************************************************)

\* The model classes an annotation names, at any depth.
RECURSIVE Mentions(_)
Mentions(annotation) ==
    IF annotation.origin = ""
    THEN (IF annotation.name \in Shapes THEN {annotation.name} ELSE {})
    ELSE UNION {Mentions(annotation.args[k]) : k \in DOMAIN annotation.args}

\* The model classes a field names directly, as an alternative of its union or as
\* the element of its collection.
DirectMentions(annotation) ==
    {FieldTargets(annotation)[k].name : k \in DOMAIN FieldTargets(annotation)} \cap Shapes

\* The classes the fields of a class lead to: along the direct edges, or along
\* the edges at any depth of the annotations.
Edges(schema, x, nested) ==
    UNION {IF nested THEN Mentions(schema[x][k]) ELSE DirectMentions(schema[x][k]) :
               k \in DOMAIN schema[x]}

\* The classes reachable from a set of classes.
RECURSIVE ReachFrom(_, _, _)
ReachFrom(schema, seen, nested) ==
    LET more == seen \cup UNION {Edges(schema, x, nested) : x \in seen}
    IN  IF more = seen THEN seen ELSE ReachFrom(schema, more, nested)

\* The classes on a cycle.
OnCycle(schema, nested) ==
    {x \in Shapes : x \in ReachFrom(schema, Edges(schema, x, nested), nested)}

\* C15: for every cyclic schema graph (a class that refers to itself directly,
\* through a union alternative or a collection element, or through classes that
\* refer to one another), the closure computation terminates and its result holds
\* each class on the cycle.
C15_CyclicClosureTerminates ==
    LET on_cycle == OnCycle(closure_schema, FALSE)
                        \cap ReachFrom(closure_schema, {closure_root}, FALSE)
    IN  (closure_pc # "called" /\ on_cycle # {})
            => (closure_pc = "returned" /\ on_cycle \subseteq closure_deps)

\* C16: for every acyclic schema graph, the closure of a root class is exactly the
\* set of model classes reachable from it along field, union-alternative and
\* collection-element edges, a collection in a union and a union in a collection
\* included; it holds the root and nothing that is not a model class.
C16_AcyclicClosureIsReachable ==
    (/\ closure_pc # "called"
     /\ OnCycle(closure_schema, TRUE)
            \cap ReachFrom(closure_schema, {closure_root}, TRUE) = {})
        => /\ closure_pc = "returned"
           /\ closure_deps = ReachFrom(closure_schema, {closure_root}, TRUE)

(***************************************************************************)
(* Claims about the broadcast channel (under SpecSubject).                 *)
(***************************************************************************)

\* The calls of callbacks one emission made.
InvocationsOf(e) == {call \in invocations : call.emission = e}

\* C17: next(v) calls every callback registered when it is called exactly once with
\* v, in the order in which they were subscribed, before it returns.
C17_EveryCallbackInOrder ==
    \A e \in DOMAIN emissions :
        emissions[e].state = "returned"
            => LET registered == emissions[e].registered
               IN  /\ \A k \in DOMAIN registered :
                          \E call \in InvocationsOf(e) : call.turn = k
                   /\ \A call \in InvocationsOf(e) :
                          /\ call.value = emissions[e].value
                          /\ IF call.turn <= Len(registered)
                             THEN call.sub = registered[call.turn]
                             ELSE call.sub.seen >= e
                   /\ \A c1, c2 \in InvocationsOf(e) : c1.turn = c2.turn => c1 = c2

\* A next call made with f and then g subscribed has returned.
C17_Witness ==
    \E e \in DOMAIN emissions :
        /\ emissions[e].state = "returned"
        /\ Len(emissions[e].registered) = 2
        /\ emissions[e].registered[1].callback = "f"
        /\ emissions[e].registered[2].callback = "g"
        /\ Cardinality(InvocationsOf(e)) = 2

\* C18: BehaviorSubject.value is None until the first next call; from then on, also
\* inside the callbacks a next call invokes and after a callback has raised, it is
\* the argument of the most recent next call.
C18_ValueIsLatest ==
    bs_value = IF emissions = <<>> THEN None ELSE Some(Last(emissions).value)

\* A callback of the first next call has raised, and a callback of the second,
\* made with another value, is being run.
C18_Witness ==
    /\ Len(emissions) = 2
    /\ emissions[1].state = "raised"
    /\ emissions[2].state = "running"
    /\ emissions[2].at > 1
    /\ emissions[1].value # emissions[2].value
    /\ bs_value = Some(emissions[2].value)

\* C19: a callback subscribed to a BehaviorSubject that has emitted a value is
\* called at once, by the subscription, with the value the subject holds.
C19_ReplayOnSubscribe ==
    [][(Len(subscribers') > Len(subscribers) /\ bs_value # None)
          => \E call \in invocations' \ invocations :
                 /\ call.sub = Last(subscribers')
                 /\ call.value = bs_value[1]]_vars

\* C20: a callback registered after some emissions is never called with a value
\* emitted before its registration: it is called only by next calls that start
\* after it was registered.
C20_NoEarlierValue ==
    \A call \in invocations : call.sub.seen < call.emission

\* C21: two calls of model_ask made with no response_id broadcast under two
\* different ids: the id of a call made with no response_id is one under which no
\* earlier such call has broadcast.
C21_FreshIdPerCall ==
    ~id_supplied => call_ids \cap default_ids = {}

\* C22 (SpecAskJson): model_ask_json never ends in an exception; when the stream
\* completes it returns the content of the last chunk streamed; when the schema
\* rendering fails, the client raises, or the stream ends without a chunk, it
\* returns None.
C22_JsonReturnsTextOrNone ==
    /\ ask_pc # "raised"
    /\ (ask_pc = "done" /\ stream_state = "ended" /\ yielded # <<>> /\ ~callback_raised)
           => json_response = Some(Last(yielded).content)
    /\ (/\ ask_pc = "done"
        /\ n_calls >= 1
        /\ \/ ~schema_renders
           \/ stream_state = "raised"
           \/ stream_state = "ended" /\ yielded = <<>>)
           => json_response = None

\* A stream of two chunks has completed and its last content was returned.
C22_Witness ==
    /\ ask_entry = "model_ask_json"
    /\ ask_pc = "done"
    /\ stream_state = "ended"
    /\ Len(yielded) >= 2
    /\ Last(yielded).content # <<>>
    /\ json_response = Some(Last(yielded).content)

\* C23: the first attempt of model_ask is prompted with the text of a Scratch Pad
\* whose response and error are empty; every later attempt with the text of the
\* pad whose response is the candidate of the failed attempt just before it and
\* whose error is built from that attempt's validation error.
C23_PromptedFromPad ==
    (ask_entry = "model_ask" /\ ask_pc = "streaming")
        => LET previous == json_response[1]
               pad == IF current_attempt = 0
                      THEN [prompt |-> scratch_pad.prompt,
                            schema_reference |-> SchemaText,
                            current_response |-> <<>>,
                            error |-> <<>>]
                      ELSE [prompt |-> scratch_pad.prompt,
                            schema_reference |-> SchemaText,
                            current_response |-> previous,
                            error |-> <<"Encountered an error: ">>
                                        \o ValidationError(previous)
                                        \o <<". Correct it according to the prompt">>]
           IN  /\ current_attempt >= 1 => json_response # None
               /\ last_prompt = <<"Original Prompt: ">> \o pad.prompt
                                   \o <<"Schema: ">> \o pad.schema_reference
                                   \o <<"Response: ">> \o pad.current_response
                                   \o <<"Error: ">> \o pad.error

\* The third attempt is streaming, after two failed candidates that differ.
C23_Witness ==
    /\ ask_entry = "model_ask"
    /\ ask_pc = "streaming"
    /\ current_attempt = 2
    /\ json_response # None
    /\ json_response[1] # <<>>
    /\ scratch_pad.current_response = json_response[1]

\* C24: when the client raises before or while streaming in an attempt of
\* model_ask, the call ends at once and returns None: the model is not called
\* again, the attempt counter and the Scratch Pad are as they were, and what was
\* broadcast stays broadcast.
C24_ClientErrorEndsCall ==
    /\ [](stream_state = "raised" => (ask_pc = "done" /\ result = None))
    /\ [][(ask_entry = "model_ask" /\ stream_state = "open" /\ stream_state' = "raised")
             => /\ ask_pc' = "done"
                /\ result' = None
                /\ UNCHANGED <<current_attempt, scratch_pad, llm_calls, broadcast,
                               subject_value>>]_vars

\* The client raised in a later attempt, after a chunk of it was broadcast.
C24_Witness ==
    /\ ask_entry = "model_ask"
    /\ stream_state = "raised"
    /\ ask_pc = "done"
    /\ current_attempt >= 1
    /\ broadcast # <<>>
    /\ result = None

\* C25: when the subprocess cannot be spawned in a synchronous execute, no
\* exception reaches the caller: execute returns False, the executor owns no
\* subprocess, is_executing is False, and the two queues are as they were.
C25_SpawnFailureReturnsFalse ==
    [][\A i \in DOMAIN runs :
          (runs[i].pc = "popen" /\ ~runs[i].is_async /\ runs'[i].spawn_failed)
              => /\ runs'[i].pc = "returned"
                 /\ runs'[i].ret = Some(FALSE)
                 /\ process' = None
                 /\ ~is_executing'
                 /\ UNCHANGED <<stdout_queue, stderr_queue>>]_vars

\* A synchronous execute has returned False after Popen raised.
C25_Witness ==
    \E i \in DOMAIN runs :
        /\ ~runs[i].is_async
        /\ runs[i].spawn_failed
        /\ runs[i].pc = "returned"
        /\ runs[i].ret = Some(FALSE)
        /\ process = None
        /\ ~is_executing

\* C28: the stdout and stderr of the response of execute_python_source are made
\* only of lines captured from the subprocess spawned for that call.
C28_OnlyOwnLines ==
    \A i \in DOMAIN runs :
        runs[i].pc = "responded"
            => runs[i].captured_from
                   \subseteq (IF runs[i].pid = None THEN {} ELSE {runs[i].pid[1]})

\* C29: a synchronous execute and its subprocess are never blocked on each other:
\* the executor waiting for a line or the end of stdout, and the subprocess, which
\* has lines to write to stderr before it closes stdout, waiting for room in the
\* stderr pipe.
C29_NeverBlockedOnEachOther ==
    \A i \in DOMAIN runs :
        ~ /\ ~runs[i].is_async
          /\ runs[i].pc = "stdout"
          /\ LET proc == procs[runs[i].pid[1]]
             IN  /\ proc.state = "running"
                 /\ proc.out_open
                 /\ proc.pipe_out = <<>>
                 /\ proc.must_err > 0
                 /\ Len(proc.pipe_err) >= PipeCap

\* The lines of a subprocess in the stdout queue.
LinesFrom(pid) == {k \in DOMAIN stdout_queue : stdout_queue[k].pid = pid}

\* C30: a kill request made while the executor owns no subprocess stays set until
\* a subprocess is spawned; that subprocess no longer runs once its first stdout
\* line is captured, and the flag is then cleared.
C30_EarlyKillIsKept ==
    /\ [][(should_kill /\ process = None) => should_kill']_vars
    /\ [][\A i \in DOMAIN runs :
             (/\ runs[i].pc = "stdout"
              /\ runs[i].kill_at_spawn
              /\ LinesFrom(runs[i].pid[1]) = {}
              /\ stdout_queue' # stdout_queue)
                 => /\ procs'[runs[i].pid[1]].state # "running"
                    /\ ~should_kill']_vars

\* A subprocess spawned with the kill flag set was signalled after its first line.
C30_Witness ==
    \E i \in DOMAIN runs :
        /\ runs[i].kill_at_spawn
        /\ procs[runs[i].pid[1]].state = "killed"
        /\ Cardinality(LinesFrom(runs[i].pid[1])) = 1
        /\ ~should_kill

\* The lines of a text: the tokens between its line breaks.
RECURSIVE SplitLines(_)
SplitLines(text) ==
    IF \A k \in DOMAIN text : text[k] # "\n" THEN <<text>>
    ELSE LET at == CHOOSE k \in DOMAIN text :
                       text[k] = "\n" /\ \A j \in 1..(k - 1) : text[j] # "\n"
         IN  <<SubSeq(text, 1, at - 1)>> \o SplitLines(SubSeq(text, at + 1, Len(text)))

\* A line that defines a callable at the top level of the script.
IsTopLevelCallable(line) == line \in {"def f(x):", "async def h(z):"}

\* The script with one annotation line before each top-level callable definition.
RECURSIVE Annotated(_)
Annotated(lines) ==
    IF lines = <<>> THEN <<>>
    ELSE (IF IsTopLevelCallable(lines[1]) THEN <<<<"@inject_locals_decorator">>>>
          ELSE <<>>) \o <<<<lines[1]>>>> \o Annotated(Tail(lines))

\* C26: the rewritten source is the given source with exactly one annotation line
\* immediately before every top-level callable definition line and before no
\* other line, the given lines unchanged and in their order.
C26_AnnotatesTopLevelCallables ==
    rewrite_pc = "returned" => SplitLines(rewrite_result) = Annotated(rewrite_lines)

\* model_ask has returned to async_chat.
Planned == gpt_plan # None

\* C27: async_chat calls model_ask, then execute_python_source, then the narration
\* model, in this order; the narration model only after a response whose
\* is_successful is true; when model_ask returns None a TypeError is raised and
\* nothing is executed; when the response is unsuccessful a
\* PythonInterpreterError with the source code of the plan and the stderr of the
\* response is raised and the narration model is not called.
C27_PlanExecuteNarrate ==
    /\ \E n \in 0..3 :
           gpt_trace = SubSeq(<<"model_ask", "execute_python_source",
                                "gpt_llm.async_chat">>, 1, n)
    /\ Contains(gpt_trace, "gpt_llm.async_chat")
           => (gpt_response # None /\ gpt_response[1].is_successful)
    /\ (Planned /\ gpt_plan[1] = None)
           => /\ gpt_pc = "raised"
              /\ gpt_error # None /\ gpt_error[1].type = "TypeError"
              /\ gpt_trace = <<"model_ask">>
    /\ (gpt_response # None /\ ~gpt_response[1].is_successful)
           => /\ gpt_pc = "raised"
              /\ gpt_error = Some([type |-> "PythonInterpreterError",
                                   source_code |-> gpt_plan[1][1].code,
                                   stderr |-> gpt_response[1].stderr])
              /\ ~Contains(gpt_trace, "gpt_llm.async_chat")

\* An execution that wrote to stderr ended the second async_chat, after a first
\* one that reached the narration model.
C27_Witness ==
    /\ gpt_chats = 2
    /\ gpt_system_prompt # None
    /\ gpt_pc = "raised"
    /\ gpt_response # None
    /\ gpt_response[1].stderr # <<>>
    /\ gpt_error # None
    /\ gpt_error[1].type = "PythonInterpreterError"
    /\ gpt_error[1].source_code = gpt_plan[1][1].code

\* C31: every value broadcast during one model_ask call, in every one of its
\* attempts, carries the response_id of that call, which does not change while
\* the call runs.
C31_OneIdPerCall ==
    /\ [](ask_entry = "model_ask"
            => /\ call_ids \subseteq {response_id}
               /\ \A k \in DOMAIN broadcast : broadcast[k].id = response_id)
    /\ [][n_calls' = n_calls => response_id' = response_id]_vars

\* A chunk of the third attempt of a call has been broadcast.
C31_Witness ==
    /\ ask_entry = "model_ask"
    /\ current_attempt = 2
    /\ ask_pc = "streaming"
    /\ broadcast # <<>>
    /\ call_ids = {response_id}

\* C32: when a subscriber of the message channel raises while a chunk is broadcast
\* during model_ask, no exception reaches the caller: the call ends and returns
\* None, the model is not called again, and the failure is not counted as a
\* failed attempt.
C32_SubscriberErrorEndsCall ==
    /\ []((ask_entry = "model_ask" /\ callback_raised)
            => (ask_pc = "done" /\ result = None))
    /\ [][(ask_entry = "model_ask" /\ ~callback_raised /\ callback_raised')
             => /\ ask_pc' = "done"
                /\ result' = None
                /\ UNCHANGED <<llm_calls, current_attempt, scratch_pad>>]_vars

\* A subscriber raised on a chunk of a later attempt.
C32_Witness ==
    /\ ask_entry = "model_ask"
    /\ callback_raised
    /\ current_attempt >= 1
    /\ llm_calls = current_attempt + 1
    /\ ask_pc = "done"
    /\ result = None

\* C33: while one model_ask call runs, the prompt and the schema text of its
\* Scratch Pad never change; a failed attempt changes only the error and, with the
\* candidate, the response; a step that fails no attempt changes nothing.
C33_PadFrame ==
    [][(ask_entry = "model_ask" /\ n_calls' = n_calls)
          => /\ scratch_pad'.prompt = scratch_pad.prompt
             /\ scratch_pad'.schema_reference = scratch_pad.schema_reference
             /\ current_attempt' = current_attempt => scratch_pad' = scratch_pad
             /\ current_attempt' # current_attempt
                    => /\ current_attempt' = current_attempt + 1
                       /\ json_response' # None
                       /\ scratch_pad'.current_response = json_response'[1]
                       /\ scratch_pad'.error # <<>>]_vars

\* The second attempt has failed, and the pad holds its candidate and its error.
C33_Witness ==
    /\ ask_entry = "model_ask"
    /\ current_attempt = 2
    /\ ask_pc = "wrapper"
    /\ json_response # None
    /\ scratch_pad.current_response = json_response[1]
    /\ scratch_pad.error # <<>>
    /\ scratch_pad.prompt # <<>>

\* The places of an entry in a list of subscribers.
Occurrences(list, entry) == {k \in DOMAIN list : list[k] = entry}

\* C34 (SpecSubjectLive): the callbacks one emission invokes are those registered
\* when it began, each as many times as it was registered, also when callbacks are
\* subscribed or unsubscribed while the emission runs.
C34_EmissionUsesItsSnapshot ==
    \A e \in DOMAIN emissions :
        emissions[e].state = "returned"
            => LET registered == emissions[e].registered
                   entries == {registered[k] : k \in DOMAIN registered}
                                  \cup {call.sub : call \in InvocationsOf(e)}
               IN  \A entry \in entries :
                       Cardinality({call \in InvocationsOf(e) : call.sub = entry})
                           = Cardinality(Occurrences(registered, entry))

\* The places of a callback in a list of subscribers.
PlacesOf(list, cb) == {k \in DOMAIN list : list[k].callback = cb}

====
